---- MODULE Spec2Model ----
(***************************************************************************)
(* A model of process_jsonl (src/twitter_data_processing.py): the single   *)
(* pass over a line-delimited JSON file that accumulates the month         *)
(* buckets, the total count, the author set, the language table and the    *)
(* first and last timestamps.                                              *)
(*                                                                         *)
(* Text values (the JSON string fields, the month keys) are sequences of   *)
(* one-character strings, so that parsing and formatting are computed and  *)
(* not assumed.  A field that tweet.get() finds absent is None.            *)
(***************************************************************************)
EXTENDS Integers, Sequences, FiniteSets

\* The number of lines of the input file the model reads at most.
MaxLines == 3

----------------------------------------------------------------------------
\* Values

\* Python's None, as returned by dict.get for an absent key.
None == <<"None">>

\* Python truthiness of a value that is None or a string.
Truthy(v) == v # None /\ v # <<>>

DigitChars == <<"0", "1", "2", "3", "4", "5", "6", "7", "8", "9">>

IsDigit(c) == \E d \in 1..10 : DigitChars[d] = c

DigitVal(c) == (CHOOSE d \in 1..10 : DigitChars[d] = c) - 1

\* int(s) for a sequence of digit characters.
RECURSIVE int(_)
int(s) ==
    IF s = <<>> THEN 0
    ELSE 10 * int(SubSeq(s, 1, Len(s) - 1)) + DigitVal(s[Len(s)])

\* str(n) for n >= 0.
RECURSIVE str(_)
str(n) ==
    IF n < 10 THEN <<DigitChars[n + 1]>>
    ELSE str(n \div 10) \o <<DigitChars[(n % 10) + 1]>>

\* format(n, "02d"): at least two digits, padded with zeros on the left.
Format02d(n) == IF n < 10 THEN <<"0">> \o str(n) ELSE str(n)

----------------------------------------------------------------------------
\* datetime

\* The value of first_tweet_date and last_tweet_date before any record.
NoDate ==
    [year |-> 0, month |-> 0, day |-> 0, hour |-> 0, minute |-> 0,
     second |-> 0, microsecond |-> 0]

IsLeap(y) == y % 4 = 0 /\ (y % 100 # 0 \/ y % 400 = 0)

DaysInMonth(y, m) ==
    IF m = 2 THEN (IF IsLeap(y) THEN 29 ELSE 28)
    ELSE IF m \in {4, 6, 9, 11} THEN 30 ELSE 31

\* datetime.__lt__: the comparison of the seven components in order.
DateTuple(d) ==
    <<d.year, d.month, d.day, d.hour, d.minute, d.second, d.microsecond>>

RECURSIVE TupleLess(_, _, _)
TupleLess(a, b, i) ==
    IF i > Len(a) THEN FALSE
    ELSE IF a[i] # b[i] THEN a[i] < b[i]
    ELSE TupleLess(a, b, i + 1)

DateLess(a, b) == TupleLess(DateTuple(a), DateTuple(b), 1)

\* The format string '%Y-%m-%dT%H:%M:%S.%fZ', one item per element.
TimestampFormat ==
    <<"%Y", "-", "%m", "-", "%d", "T", "%H", ":", "%M", ":", "%S", ".", "%f", "Z">>

IsDirective(item) == item \in {"%Y", "%m", "%d", "%H", "%M", "%S", "%f"}

\* The widest text a directive's pattern takes.
MaxWidth(item) == IF item = "%Y" THEN 4 ELSE IF item = "%f" THEN 6 ELSE 2

\* The digits at s[i..], at most max of them.
RECURSIVE DigitRun(_, _, _)
DigitRun(s, i, max) ==
    IF max = 0 \/ i > Len(s) THEN <<>>
    ELSE IF ~IsDigit(s[i]) THEN <<>>
    ELSE <<s[i]>> \o DigitRun(s, i + 1, max - 1)

\* Whether a digit run is a whole match of the directive's pattern:
\* %Y \d\d\d\d, %m 1[0-2]|0[1-9]|[1-9], %d 3[01]|[12]\d|0[1-9]|[1-9],
\* %H 2[0-3]|[0-1]\d|\d, %M [0-5]\d|\d, %S 6[0-1]|[0-5]\d|\d, %f \d{1,6}.
DirectiveMatches(item, run) ==
    CASE item = "%Y" -> Len(run) = 4
      [] item = "%m" -> Len(run) \in 1..2 /\ int(run) \in 1..12
      [] item = "%d" -> Len(run) \in 1..2 /\ int(run) \in 1..31
      [] item = "%H" -> Len(run) \in 1..2 /\ int(run) \in 0..23
      [] item = "%M" -> Len(run) \in 1..2 /\ int(run) \in 0..59
      [] item = "%S" -> Len(run) \in 1..2 /\ int(run) \in 0..61
      [] item = "%f" -> Len(run) \in 1..6

\* The match of format items k.. against s[i..]: the digit runs of the
\* directives in order, or <<"no match">> when the text does not match or data
\* remains after the last item.
RECURSIVE MatchFormat(_, _, _, _)
MatchFormat(k, s, i, runs) ==
    IF k > Len(TimestampFormat)
    THEN (IF i = Len(s) + 1 THEN runs ELSE <<"no match">>)
    ELSE LET item == TimestampFormat[k] IN
         IF IsDirective(item)
         THEN LET run == DigitRun(s, i, MaxWidth(item)) IN
              IF DirectiveMatches(item, run)
              THEN MatchFormat(k + 1, s, i + Len(run), Append(runs, run))
              ELSE <<"no match">>
         ELSE IF i <= Len(s) /\ s[i] = item
              THEN MatchFormat(k + 1, s, i + 1, runs)
              ELSE <<"no match">>

\* The fraction is padded with zeros on the right to six digits.
RECURSIVE PadRight6(_)
PadRight6(run) == IF Len(run) >= 6 THEN run ELSE PadRight6(run \o <<"0">>)

\* datetime.strptime(text, '%Y-%m-%dT%H:%M:%S.%fZ'): [ok |-> TRUE, date |-> d],
\* or ok = FALSE where Python raises (TypeError for None, ValueError for a text
\* that does not match or names no valid date).
ParseTimestamp(text) ==
    IF text = None THEN [ok |-> FALSE, date |-> NoDate]
    ELSE LET runs == MatchFormat(1, text, 1, <<>>) IN
         IF runs = <<"no match">> THEN [ok |-> FALSE, date |-> NoDate]
         ELSE LET d == [year |-> int(runs[1]), month |-> int(runs[2]),
                        day |-> int(runs[3]), hour |-> int(runs[4]),
                        minute |-> int(runs[5]), second |-> int(runs[6]),
                        microsecond |-> int(PadRight6(runs[7]))] IN
              IF d.year >= 1 /\ d.day <= DaysInMonth(d.year, d.month)
                 /\ d.second <= 59
              THEN [ok |-> TRUE, date |-> d]
              ELSE [ok |-> FALSE, date |-> NoDate]

----------------------------------------------------------------------------
\* The input file

Chars1 == <<"1">>
Chars2 == <<"2">>

\* "2023-04-01T12:00:00.000000Z"
TsApril ==
    <<"2", "0", "2", "3", "-", "0", "4", "-", "0", "1", "T", "1", "2", ":",
      "0", "0", ":", "0", "0", ".", "0", "0", "0", "0", "0", "0", "Z">>

\* "2023-4-2T09:30:00.5Z": one-digit month, day and fraction match the format.
TsAprilShort ==
    <<"2", "0", "2", "3", "-", "4", "-", "2", "T", "0", "9", ":", "3", "0",
      ":", "0", "0", ".", "5", "Z">>

\* "2022-12-31T23:59:59.999999Z"
TsDecember ==
    <<"2", "0", "2", "2", "-", "1", "2", "-", "3", "1", "T", "2", "3", ":",
      "5", "9", ":", "5", "9", ".", "9", "9", "9", "9", "9", "9", "Z">>

\* "0999-01-01T00:00:00.0Z": %Y takes any four digits.
TsYear999 ==
    <<"0", "9", "9", "9", "-", "0", "1", "-", "0", "1", "T", "0", "0", ":",
      "0", "0", ":", "0", "0", ".", "0", "Z">>

\* "2023-04-01T12:00:00Z": no fraction, does not match the format.
TsNoFraction ==
    <<"2", "0", "2", "3", "-", "0", "4", "-", "0", "1", "T", "1", "2", ":",
      "0", "0", ":", "0", "0", "Z">>

\* "2023-02-30T12:00:00.0Z": matches the format, names no date.
TsFebruary30 ==
    <<"2", "0", "2", "3", "-", "0", "2", "-", "3", "0", "T", "1", "2", ":",
      "0", "0", ":", "0", "0", ".", "0", "Z">>

\* What json.loads makes of a line: "badjson" raises JSONDecodeError, "nonobj"
\* is JSON that is no object (a list, a number, null), "obj" is an object
\* whose four fields are as tweet.get() returns them.
Tweet(i, c, a, l) ==
    [kind |-> "obj", id |-> i, created_at |-> c, author_id |-> a, lang |-> l]

BadJsonLine ==
    [kind |-> "badjson", id |-> None, created_at |-> None, author_id |-> None,
     lang |-> None]

NonObjectLine ==
    [kind |-> "nonobj", id |-> None, created_at |-> None, author_id |-> None,
     lang |-> None]

\* The lines the input file is made of.
LineSet ==
    {BadJsonLine, NonObjectLine}
    \cup {Tweet(i, TsApril, <<"a">>, <<"e", "n">>) : i \in {None, <<>>}}
    \cup {Tweet(Chars1, c, <<"a">>, <<"e", "n">>) : c \in {None, <<>>}}
    \cup {Tweet(i, c, <<"a">>, <<"e", "n">>) :
            i \in {Chars1, Chars2}, c \in {TsApril, TsAprilShort, TsDecember}}
    \cup {Tweet(Chars2, TsDecember, <<"b">>, <<"e", "s">>),
          Tweet(Chars1, TsApril, None, <<>>),
          Tweet(Chars2, TsAprilShort, <<"b">>, None),
          Tweet(Chars1, TsYear999, <<"a">>, <<"e", "n">>),
          Tweet(Chars1, TsNoFraction, <<"a">>, <<"e", "n">>),
          Tweet(Chars2, TsFebruary30, <<"a">>, <<"e", "n">>)}

\* The lines of the files whose every reordering is run: no two of them
\* agree in id, date, author and language, and there is one of each kind of
\* line that is skipped or that stops the run.
OrderLineSet ==
    {BadJsonLine,
     Tweet(Chars1, None, <<"a">>, <<"e", "n">>),
     Tweet(Chars1, TsApril, <<"a">>, <<"e", "n">>),
     Tweet(Chars2, TsApril, <<"a">>, <<"e", "n">>),
     Tweet(Chars1, TsAprilShort, <<"a">>, <<"e", "n">>),
     Tweet(Chars1, TsDecember, <<"a">>, <<"e", "n">>),
     Tweet(Chars2, TsDecember, <<"b">>, <<"e", "s">>),
     Tweet(Chars1, TsApril, None, <<>>),
     Tweet(Chars2, TsAprilShort, <<"b">>, None),
     Tweet(Chars1, TsYear999, <<"a">>, <<"e", "n">>),
     Tweet(Chars1, TsNoFraction, <<"a">>, <<"e", "n">>)}

\* datetime.strptime on the created_at values of the input.
strptime == [c \in {l.created_at : l \in LineSet} |-> ParseTimestamp(c)]

----------------------------------------------------------------------------
\* process_jsonl

VARIABLES
    lines,               \* the lines read from the file so far
    status,              \* "loop", "returned", or the exception that escaped
    monthly_tweets,      \* dict: month key -> set of tweet ids
    total_tweets,
    unique_authors,
    tweets_by_language,  \* Counter: lang -> count
    first_tweet_date,
    last_tweet_date,
    stdout               \* what print() wrote

vars ==
    <<lines, status, monthly_tweets, total_tweets, unique_authors,
      tweets_by_language, first_tweet_date, last_tweet_date, stdout>>

\* The empty dict and the empty Counter.
EmptyDict == [k \in {} |-> {}]

\* The locals of process_jsonl as one value.
Locals ==
    [status |-> status, monthly_tweets |-> monthly_tweets,
     total_tweets |-> total_tweets, unique_authors |-> unique_authors,
     tweets_by_language |-> tweets_by_language,
     first_tweet_date |-> first_tweet_date,
     last_tweet_date |-> last_tweet_date, stdout |-> stdout]

InitialLocals ==
    [status |-> "loop", monthly_tweets |-> EmptyDict, total_tweets |-> 0,
     unique_authors |-> {}, tweets_by_language |-> EmptyDict,
     first_tweet_date |-> NoDate, last_tweet_date |-> NoDate,
     stdout |-> <<>>]

\* Faulty variant: `if created_at`: the id is not tested.
Included_OnlyCreatedAt(tweet_id, created_at) == Truthy(created_at)

\* if tweet_id and created_at
Included(tweet_id, created_at) == Truthy(tweet_id) /\ Truthy(created_at)

\* Faulty variant: `elif` for the second test: the first record sets only the minimum.
ProcessTweetDate_Elif(st, date) ==
    IF st.first_tweet_date = NoDate \/ DateLess(date, st.first_tweet_date)
    THEN [st EXCEPT !.first_tweet_date = date]
    ELSE IF st.last_tweet_date = NoDate \/ DateLess(st.last_tweet_date, date)
    THEN [st EXCEPT !.last_tweet_date = date]
    ELSE st

\* Faulty variant: the minimum is taken from the first record only, without the
\* `date < first_tweet_date` test.
ProcessTweetDate_FirstSeen(st, date) ==
    LET first == IF st.first_tweet_date = NoDate
                 THEN date ELSE st.first_tweet_date
        last == IF st.last_tweet_date = NoDate
                   \/ DateLess(st.last_tweet_date, date)
                THEN date ELSE st.last_tweet_date
    IN [st EXCEPT !.first_tweet_date = first, !.last_tweet_date = last]

\* The running minimum and maximum of the parsed dates.
ProcessTweetDate(st, date) ==
    LET first == IF st.first_tweet_date = NoDate
                    \/ DateLess(date, st.first_tweet_date)
                 THEN date ELSE st.first_tweet_date
        last == IF st.last_tweet_date = NoDate
                   \/ DateLess(st.last_tweet_date, date)
                THEN date ELSE st.last_tweet_date
    IN [st EXCEPT !.first_tweet_date = first, !.last_tweet_date = last]

\* f"tweet_ids_{date.year}_{date.month:02d}"
month_key(date) ==
    <<"tweet_ids_">> \o str(date.year) \o <<"_">> \o Format02d(date.month)

\* Faulty variant: monthly_tweets[month_key] = {tweet_id}: the bucket is replaced.
ProcessMonthlyTweets_Overwrite(st, date, tweet_id) ==
    LET key == month_key(date)
        old == st.monthly_tweets
    IN [st EXCEPT !.monthly_tweets =
           [k \in DOMAIN old \cup {key} |->
               IF k = key THEN {tweet_id} ELSE old[k]]]

\* monthly_tweets.setdefault(month_key, set()).add(tweet_id)
ProcessMonthlyTweets(st, date, tweet_id) ==
    LET key == month_key(date)
        old == st.monthly_tweets
        bucket == IF key \in DOMAIN old THEN old[key] ELSE {}
    IN [st EXCEPT !.monthly_tweets =
           [k \in DOMAIN old \cup {key} |->
               IF k = key THEN bucket \cup {tweet_id} ELSE old[k]]]

\* Faulty variant: total_tweets += 1 indented under `if author_id`.
UpdateStatistics_TotalUnderAuthor(st, author_id, lang) ==
    LET counter == st.tweets_by_language
        count == IF lang \in DOMAIN counter THEN counter[lang] ELSE 0
    IN [st EXCEPT
           !.total_tweets = IF Truthy(author_id) THEN @ + 1 ELSE @,
           !.unique_authors = IF Truthy(author_id) THEN @ \cup {author_id} ELSE @,
           !.tweets_by_language =
               IF Truthy(lang)
               THEN [k \in DOMAIN counter \cup {lang} |->
                        IF k = lang THEN count + 1 ELSE counter[k]]
               ELSE @]

\* Faulty variant: total_tweets += 1 indented under `if lang`.
UpdateStatistics_TotalUnderLang(st, author_id, lang) ==
    LET counter == st.tweets_by_language
        count == IF lang \in DOMAIN counter THEN counter[lang] ELSE 0
    IN [st EXCEPT
           !.total_tweets = IF Truthy(lang) THEN @ + 1 ELSE @,
           !.unique_authors = IF Truthy(author_id) THEN @ \cup {author_id} ELSE @,
           !.tweets_by_language =
               IF Truthy(lang)
               THEN [k \in DOMAIN counter \cup {lang} |->
                        IF k = lang THEN count + 1 ELSE counter[k]]
               ELSE @]

\* total_tweets += 1, and the author and language when they are truthy.
UpdateStatistics(st, author_id, lang) ==
    LET counter == st.tweets_by_language
        count == IF lang \in DOMAIN counter THEN counter[lang] ELSE 0
    IN [st EXCEPT
           !.total_tweets = @ + 1,
           !.unique_authors = IF Truthy(author_id) THEN @ \cup {author_id} ELSE @,
           !.tweets_by_language =
               IF Truthy(lang)
               THEN [k \in DOMAIN counter \cup {lang} |->
                        IF k = lang THEN count + 1 ELSE counter[k]]
               ELSE @]

\* Faulty variant: no except clause for JSONDecodeError: the exception escapes.
JSONDecodeErrorHandler_Missing(st, line) ==
    [st EXCEPT !.status = "JSONDecodeError"]

\* except json.JSONDecodeError: print(...)
JSONDecodeErrorHandler(st, line) ==
    [st EXCEPT !.stdout =
        Append(@, [msg |-> "Skipping invalid JSON line", line |-> line])]

\* An exception no except clause names leaves process_jsonl.
Raise(st, exception) == [st EXCEPT !.status = exception]

\* One iteration of `for line in file`.
LoopBody(st, line) ==
    IF line.kind = "badjson" THEN JSONDecodeErrorHandler(st, line)
    ELSE IF line.kind = "nonobj" THEN Raise(st, "AttributeError")
    ELSE IF ~Included(line.id, line.created_at) THEN st
    ELSE LET parsed == strptime[line.created_at] IN
         IF ~parsed.ok
         THEN Raise(st, IF line.created_at = None THEN "TypeError" ELSE "ValueError")
         ELSE UpdateStatistics(
                  ProcessMonthlyTweets(
                      ProcessTweetDate(st, parsed.date), parsed.date, line.id),
                  line.author_id, line.lang)

\* The whole loop over a given sequence of lines; it stops at the first
\* exception that escapes.
RECURSIVE RunLoop(_, _)
RunLoop(st, file) ==
    IF file = <<>> \/ st.status # "loop" THEN st
    ELSE RunLoop(LoopBody(st, Head(file)), Tail(file))

\* return monthly_tweets, total_tweets, unique_authors, tweets_by_language,
\*        first_tweet_date, last_tweet_date
ReturnValue(st) ==
    <<st.monthly_tweets, st.total_tweets, st.unique_authors,
      st.tweets_by_language, st.first_tweet_date, st.last_tweet_date>>

Init ==
    /\ lines = <<>>
    /\ status = "loop"
    /\ monthly_tweets = EmptyDict
    /\ total_tweets = 0
    /\ unique_authors = {}
    /\ tweets_by_language = EmptyDict
    /\ first_tweet_date = NoDate
    /\ last_tweet_date = NoDate
    /\ stdout = <<>>

\* The loop reads the next line of the file and runs its body on it.
Iterate(from) ==
    /\ status = "loop"
    /\ Len(lines) < MaxLines
    /\ \E line \in from :
          LET st == LoopBody(Locals, line) IN
          /\ lines' = Append(lines, line)
          /\ status' = st.status
          /\ monthly_tweets' = st.monthly_tweets
          /\ total_tweets' = st.total_tweets
          /\ unique_authors' = st.unique_authors
          /\ tweets_by_language' = st.tweets_by_language
          /\ first_tweet_date' = st.first_tweet_date
          /\ last_tweet_date' = st.last_tweet_date
          /\ stdout' = st.stdout

ReadLine == Iterate(LineSet)

\* The file is exhausted: return the six results.
Return ==
    /\ status = "loop"
    /\ status' = "returned"
    /\ UNCHANGED <<lines, monthly_tweets, total_tweets, unique_authors,
                   tweets_by_language, first_tweet_date, last_tweet_date,
                   stdout>>

Next == ReadLine \/ Return

Spec == Init /\ [][Next]_vars

\* The same program on the files made of OrderLineSet.
ReadOrderLine == Iterate(OrderLineSet)

NextOrder == ReadOrderLine \/ Return

SpecOrder == Init /\ [][NextOrder]_vars

----------------------------------------------------------------------------
\* Properties.  They read the input (lines) and the state, and decide
\* inclusion and month on their own, not through the operators of the loop.

Running == status \in {"loop", "returned"}

LastLine(file) == file[Len(file)]

\* A line was read in this step.
LineRead == Len(lines') = Len(lines) + 1

\* The line is a JSON object with a non-empty id and a non-empty created_at.
HasBothFields(l) ==
    /\ l.kind = "obj"
    /\ l.id # None /\ l.id # <<>>
    /\ l.created_at # None /\ l.created_at # <<>>

\* The line is a JSON object that lacks a required field.
MissingRequiredField(l) == l.kind = "obj" /\ ~HasBothFields(l)

\* The line has both fields and created_at does not parse.
MalformedTimestamp(l) == HasBothFields(l) /\ ~strptime[l.created_at].ok

\* The lines read (by index) that have both fields.
BothFieldsLines == {i \in DOMAIN lines : HasBothFields(lines[i])}

DateOf(l) == strptime[l.created_at].date

\* Every line is a JSON object and every created_at that is parsed matches.
InputValid ==
    \A i \in DOMAIN lines :
        lines[i].kind = "obj" /\ ~MalformedTimestamp(lines[i])

AccumulatorsUnchanged ==
    UNCHANGED <<monthly_tweets, total_tweets, unique_authors,
                tweets_by_language, first_tweet_date, last_tweet_date>>

BucketUnion == UNION {monthly_tweets[k] : k \in DOMAIN monthly_tweets}

BucketsDisjoint ==
    \A k1, k2 \in DOMAIN monthly_tweets :
        k1 # k2 => monthly_tweets[k1] \cap monthly_tweets[k2] = {}

\* No id occurs on two lines that have both fields.
IdsDistinct ==
    \A i, j \in BothFieldsLines : i # j => lines[i].id # lines[j].id

RECURSIVE SumCounts(_, _)
SumCounts(counter, keys) ==
    IF keys = {} THEN 0
    ELSE LET k == CHOOSE x \in keys : TRUE IN
         counter[k] + SumCounts(counter, keys \ {k})

\* C1: when every line is a valid JSON object and every parsed created_at
\* matches the format, the total count is the number of lines that have both
\* a non-empty id and a non-empty created_at, a repeated id counting once per
\* line.
C1_TotalIsLineCount ==
    InputValid => total_tweets = Cardinality(BothFieldsLines)

\* C1 witness: a returned run over valid lines in which an id occurs on two
\* counted lines and a third line is excluded.
C1_Witness ==
    /\ status = "returned"
    /\ InputValid
    /\ total_tweets = 2
    /\ Len(lines) = 3
    /\ \E i, j \in BothFieldsLines : i # j /\ lines[i].id = lines[j].id

\* C2, as stated: in the result the union of the month buckets has as many
\* identifiers as the total count and no identifier is in two buckets, for
\* every input, repeated ids included.
C2_PartitionForEveryInput ==
    status = "returned" =>
        /\ Cardinality(BucketUnion) = total_tweets
        /\ BucketsDisjoint

\* C2, amended: the union of the buckets never has more identifiers than the
\* total count; when no id occurs on two counted lines, it has exactly as
\* many and no identifier is in two buckets.
C2_PartitionForDistinctIds ==
    Running =>
        /\ Cardinality(BucketUnion) <= total_tweets
        /\ IdsDistinct =>
              /\ Cardinality(BucketUnion) = total_tweets
              /\ BucketsDisjoint

\* C2 witness: a returned run of two counted records with different ids, in
\* two different months.
C2_Witness ==
    /\ status = "returned"
    /\ IdsDistinct
    /\ total_tweets = 2
    /\ Cardinality(DOMAIN monthly_tweets) = 2
    /\ Cardinality(BucketUnion) = 2

\* C3, as stated: a line with a non-empty id whose created_at does not match
\* the format does not abort the run.
C3_ParseFailureDoesNotAbort ==
    (\E i \in DOMAIN lines : MalformedTimestamp(lines[i])) => Running

\* C4: a line that is not valid JSON changes none of the six results, a
\* diagnostic is printed for it and the loop goes on; the lines after it are
\* accumulated as if it were not there.
C4_InvalidJsonSkipped ==
    /\ [][(LineRead /\ LastLine(lines').kind = "badjson") =>
            /\ AccumulatorsUnchanged
            /\ status' = "loop"
            /\ Len(stdout') = Len(stdout) + 1
            /\ LastLine(stdout').line = LastLine(lines')]_vars
    /\ []((\A i \in DOMAIN lines :
              lines[i].kind \in {"obj", "badjson"}
              /\ ~MalformedTimestamp(lines[i]))
          => total_tweets = Cardinality(BothFieldsLines))

\* C4 witness: an invalid line was skipped and a later line was counted.
C4_Witness ==
    /\ Running
    /\ total_tweets = 1
    /\ Len(stdout) = 1
    /\ \E i, j \in DOMAIN lines :
          i < j /\ lines[i].kind = "badjson" /\ HasBothFields(lines[j])

\* C5: a record whose id or created_at is absent or empty changes none of the
\* six results, whatever its author_id and lang.
C5_MissingFieldExcluded ==
    [][(LineRead /\ MissingRequiredField(LastLine(lines'))) =>
          AccumulatorsUnchanged]_vars

\* C5 witness: after a counted record, a record without id and a record
\* without created_at, both with an author and a language, were read.
C5_Witness ==
    /\ Running
    /\ Len(lines) = 3
    /\ HasBothFields(lines[1])
    /\ MissingRequiredField(lines[2]) /\ lines[2].id = None
    /\ MissingRequiredField(lines[3]) /\ lines[3].created_at = None
    /\ lines[2].author_id # None /\ lines[3].lang # None
    /\ total_tweets = 1

\* C6: whenever the total count is positive, both dates are set and the first
\* is not after the last.
C6_FirstNotAfterLast ==
    total_tweets > 0 =>
        /\ first_tweet_date # NoDate
        /\ last_tweet_date # NoDate
        /\ ~DateLess(last_tweet_date, first_tweet_date)

\* C6 witness: records arrived latest first, and the dates differ.
C6_Witness ==
    /\ status = "returned"
    /\ total_tweets = 2
    /\ Len(lines) = 2
    /\ DateLess(DateOf(lines[2]), DateOf(lines[1]))
    /\ first_tweet_date = DateOf(lines[2])
    /\ last_tweet_date = DateOf(lines[1])

\* C7: the author set is no larger than the total count, and the counts of the
\* language table sum to no more than the total count.
C7_AuthorsAndLanguagesBounded ==
    /\ Cardinality(unique_authors) <= total_tweets
    /\ SumCounts(tweets_by_language, DOMAIN tweets_by_language) <= total_tweets

\* C7 witness: three records, one without a language and one without an
\* author among them.
C7_Witness ==
    /\ Running
    /\ total_tweets = 3
    /\ Cardinality(unique_authors) = 2
    /\ SumCounts(tweets_by_language, DOMAIN tweets_by_language) = 1

\* The permutations of 1..n.
IndexPermutations ==
    [n \in 0..MaxLines |->
        {p \in [1..n -> 1..n] : \A a, b \in 1..n : a # b => p[a] # p[b]}]

\* C8: when the run returns, the run over any permutation of the same lines
\* returns too, with the same six results.
C8_OrderIndependent ==
    status = "returned" =>
        \A p \in IndexPermutations[Len(lines)] :
            LET st == RunLoop(InitialLocals, [i \in 1..Len(lines) |-> lines[p[i]]])
            IN /\ st.status = "loop"
               /\ ReturnValue(st) = ReturnValue(Locals)

\* C8 witness: a returned run of three counted records with three different
\* dates, not in the order of their dates.
C8_Witness ==
    /\ status = "returned"
    /\ total_tweets = 3
    /\ DateLess(DateOf(lines[3]), DateOf(lines[1]))
    /\ DateLess(DateOf(lines[1]), DateOf(lines[2]))
    /\ Cardinality(DOMAIN monthly_tweets) = 3

\* C9, as stated: a diagnostic is printed for every JSON object that lacks a
\* required field.
C9_MissingFieldDiagnostic ==
    Running =>
        \A i \in DOMAIN lines :
            MissingRequiredField(lines[i]) =>
                \E j \in DOMAIN stdout : stdout[j].line = lines[i]

\* The key "tweet_ids_YYYY_MM": four digits of year, two of month.
FourDigitYearKey(date) ==
    <<"tweet_ids_",
      DigitChars[((date.year \div 1000) % 10) + 1],
      DigitChars[((date.year \div 100) % 10) + 1],
      DigitChars[((date.year \div 10) % 10) + 1],
      DigitChars[(date.year % 10) + 1],
      "_",
      DigitChars[(date.month \div 10) + 1],
      DigitChars[(date.month % 10) + 1]>>

\* The buckets are those Key gives: each counted record's id is in the bucket
\* of its own date, a bucket holds only ids of records of its month, no
\* bucket is empty, and records of different months have different buckets.
BucketsKeyedBy(Key(_)) ==
    Running =>
        /\ \A i \in BothFieldsLines :
              /\ Key(DateOf(lines[i])) \in DOMAIN monthly_tweets
              /\ lines[i].id \in monthly_tweets[Key(DateOf(lines[i]))]
        /\ \A k \in DOMAIN monthly_tweets :
              /\ monthly_tweets[k] # {}
              /\ \A id \in monthly_tweets[k] :
                    \E i \in BothFieldsLines :
                        lines[i].id = id /\ Key(DateOf(lines[i])) = k
        /\ \A i, j \in BothFieldsLines :
              (DateOf(lines[i]).year # DateOf(lines[j]).year
               \/ DateOf(lines[i]).month # DateOf(lines[j]).month)
              => Key(DateOf(lines[i])) # Key(DateOf(lines[j]))

\* C10, as stated: each counted record's id is in exactly the bucket keyed by
\* the four-digit year and the two-digit month of its own date, each bucket
\* holds only ids of records of that month, and no bucket is empty.
C10_BucketsByFourDigitYear == BucketsKeyedBy(FourDigitYearKey)

\* The key with the year in decimal digits, as many as it has.
DecimalYearKey(date) ==
    <<"tweet_ids_">> \o
    (IF date.year < 1000
     THEN SubSeq(FourDigitYearKey(date), IF date.year < 100 THEN 4 ELSE 3, 5)
     ELSE SubSeq(FourDigitYearKey(date), 2, 5))
    \o SubSeq(FourDigitYearKey(date), 6, 8)

\* What does hold of the month buckets: the same, the year written without
\* padding.
BucketsByDecimalYear == BucketsKeyedBy(DecimalYearKey)

====
